---- MODULE Spec2Model ----
(***************************************************************************)
(* Model of alcademic_scripts/generate_meta_batch_files.py:                *)
(* convert_and_split_metadata (the record loop, the shard rotation, the    *)
(* error exits and the final report), create_user_prompt, and the three    *)
(* regular-expression repair steps applied to the raw JSON text.           *)
(*                                                                         *)
(* Text (JSON text, string field values) is a sequence of character        *)
(* tokens.  A JSON field value is a record [ty, v]: ty = "absent" (the key *)
(* is missing or null, dict.get gives None), "str" (v a token sequence) or *)
(* "num" (v a natural number).                                             *)
(***************************************************************************)
EXTENDS Integers, Sequences, FiniteSets, TLC

\* ------------------------------------------------------------------ bounds
MaxRecords == 3
MaxChunk == 2
MaxTextLen == 3

\* ------------------------------------------------------- JSON field values
Absent == [ty |-> "absent", v |-> 0]
StrV(s) == [ty |-> "str", v |-> s]
NumV(n) == [ty |-> "num", v |-> n]

\* ---------------------------------------------------------- character sets
\* Tokens of the text alphabet: a comma, a closing bracket, a space, a line
\* feed, a NUL, a backslash, a double quote and an ordinary character.
Alphabet == {",", "]", " ", "LF", "NUL", "\\", "\"", "x"}

\* The class [\x00-\x1F\x7F-\x9F] of line 91.
IsControl(c) == c \in {"LF", "NUL"}

\* The class \s of line 94 and the characters str.strip() removes.
IsSpace(c) == c \in {" ", "LF"}

\* ------------------------------------------------------------ Python truth
\* bool(x) for None, str and int, as all([...]) on line 124 applies it.
Truthy(x) ==
  CASE x.ty = "absent" -> FALSE
    [] x.ty = "str" -> x.v # <<>>
    [] x.ty = "num" -> x.v # 0

\* Variant of NotAll that forgets the title.
NotAllMutant(paper_id, title, abstract) == ~(Truthy(paper_id) /\ Truthy(abstract))
\* `not all([paper_id, title, abstract])`, line 124.
NotAll(paper_id, title, abstract) == ~(Truthy(paper_id) /\ Truthy(title) /\ Truthy(abstract))

\* str.strip(): drop leading and trailing whitespace.
RECURSIVE LStrip(_)
LStrip(s) == IF s # <<>> /\ IsSpace(Head(s)) THEN LStrip(Tail(s)) ELSE s

RECURSIVE RStrip(_)
RStrip(s) ==
  IF s # <<>> /\ IsSpace(s[Len(s)]) THEN RStrip(SubSeq(s, 1, Len(s) - 1)) ELSE s

Strip(s) == RStrip(LStrip(s))

\* str(x) as an f-string renders it: a string as itself, a number by its
\* decimal digits (numbers of the model are single digits).
Digit(n) == CASE n = 0 -> "0" [] n = 1 -> "1" [] n = 2 -> "2" [] OTHER -> "9"
Format(x) ==
  CASE x.ty = "str" -> x.v
    [] x.ty = "num" -> <<Digit(x.v)>>
    [] OTHER -> <<"None">>

\* -------------------------------------------------------- create_user_prompt
\* The result of create_user_prompt: "none" (returns None), "raise" (the
\* abstract is truthy but has no strip method: AttributeError), or the prompt.
PromptOf(title, authors, abstract) ==
  [kind |-> "prompt",
   title |-> Format(title),
   author |-> IF Truthy(authors) THEN Strip(authors.v) ELSE <<"N/A">>,
   abstract |-> Strip(abstract.v)]

create_user_prompt(title, authors, abstract) ==
  IF ~Truthy(abstract) THEN [kind |-> "none"]
  ELSE IF abstract.ty # "str" THEN [kind |-> "raise"]
  ELSE IF Strip(abstract.v) = <<>> THEN [kind |-> "none"]
  ELSE PromptOf(title, authors, abstract)

\* Variant of CustomId that leaves the id out.
CustomIdMutant(paper_id) == <<"extract-">>
\* f"extract-{paper_id}", line 161.
CustomId(paper_id) == <<"extract-">> \o Format(paper_id)

\* The request line of lines 151-165 (the constant fields are left out).
JsonlLine(paper_id, user_content) ==
  [custom_id |-> CustomId(paper_id), user |-> user_content]

\* ------------------------------------------------------------------ inputs
\* An element of the parsed array: a mapping with the four keys the loop
\* reads (a key that is missing or null is Absent), or a value that is not a
\* mapping (record.get raises AttributeError).
Rec(id, title, abstract, author) ==
  [mapping |-> TRUE, _id |-> id, title |-> title, abstract |-> abstract,
   author |-> author]

NotAMapping ==
  [mapping |-> FALSE, _id |-> Absent, title |-> Absent, abstract |-> Absent,
   author |-> Absent]

T == StrV(<<"T">>)
A == StrV(<<"A">>)

RecordPool ==
  { Rec(StrV(<<"1">>), T, A, Absent),
    Rec(StrV(<<"2">>), T, StrV(<<" ", "A", " ">>), StrV(<<" ", "B">>)),
    Rec(NumV(1), NumV(2), A, Absent),
    Rec(Absent, T, A, Absent),
    Rec(NumV(0), T, A, Absent),
    Rec(StrV(<<"2">>), StrV(<<>>), A, Absent),
    Rec(StrV(<<"1">>), T, Absent, Absent),
    Rec(StrV(<<"2">>), T, StrV(<<" ", " ">>), Absent),
    Rec(StrV(<<"1">>), T, NumV(1), Absent),
    NotAMapping }

RECURSIVE SeqsUpTo(_, _)
SeqsUpTo(S, n) ==
  IF n = 0 THEN {<<>>}
  ELSE LET shorter == SeqsUpTo(S, n - 1)
       IN shorter \cup {Append(s, x) : s \in {t \in shorter : Len(t) = n - 1}, x \in S}

\* What json.loads gives for the repaired text: a list, a value that is not
\* a list, or a JSONDecodeError.
ParseResults ==
  {[kind |-> "list", list |-> l] : l \in SeqsUpTo(RecordPool, MaxRecords)}
    \cup {[kind |-> "notlist", list |-> <<>>], [kind |-> "badjson", list |-> <<>>]}

\* ------------------------------------------------------------------- state
VARIABLES
  parsed,                  \* what json.loads will return for the input file
  max_lines,               \* the chunk size
  pc,                      \* "mkdir", "read", "loop", "done"; "repair" in SpecRepair
  exit,                    \* how the run ended, "none" while it runs
  metadata_list,           \* the parsed list
  i,                       \* 1-based position of the loop in metadata_list
  total_processed_count,
  total_skipped_count,
  file_index,
  line_count_current_file,
  outfile,                 \* 0 for None, else the number of the file object
  opened,                  \* opened[h]: the shard index file object h was opened on
  isOpen,                  \* isOpen[h]: file object h is not closed
  files,                   \* shard index -> [lines, torn], the files on disk
  final_file_count,        \* the count the summary prints, -1 if none printed
  json_str,                \* the raw text (repair pass)
  corrected_json_text,     \* the text under repair
  stage,                   \* position in the repair pass
  repaired                 \* the text as the repair pass left it

pipeline_vars ==
  <<parsed, max_lines, pc, exit, metadata_list, i, total_processed_count,
    total_skipped_count, file_index, line_count_current_file, outfile, opened,
    isOpen, files, final_file_count>>

repair_vars == <<json_str, corrected_json_text, stage, repaired>>

vars == <<pipeline_vars, repair_vars>>

\* Lines 57-62.
InitLocals ==
  /\ total_processed_count = 0
  /\ total_skipped_count = 0
  /\ file_index = 1
  /\ line_count_current_file = 0
  /\ outfile = 0
  /\ opened = <<>>
  /\ isOpen = <<>>
  /\ files = <<>>
  /\ final_file_count = -1
  /\ metadata_list = <<>>
  /\ i = 1
  /\ exit = "none"

RepairIdle ==
  /\ json_str = <<>>
  /\ corrected_json_text = <<>>
  /\ stage = "idle"
  /\ repaired = <<>>

Init ==
  /\ parsed \in ParseResults
  /\ max_lines \in 1..MaxChunk
  /\ pc = "mkdir"
  /\ InitLocals
  /\ RepairIdle

\* ----------------------------------------------------- file object helpers
\* Variant of CloseIfOpen that never closes.
CloseIfOpenMutant(io, h) == io
\* `if outfile and not outfile.closed: outfile.close()`.
CloseIfOpen(io, h) == IF h # 0 /\ io[h] THEN [io EXCEPT ![h] = FALSE] ELSE io

\* Variant of ClosePrevious that opens the next file without closing.
ClosePreviousMutant(io, h) == io
\* Lines 139-141: the previous file object is closed before the next open.
ClosePrevious(io, h) == CloseIfOpen(io, h)

\* Variant of CloseOnWriteError that returns without closing.
CloseOnWriteErrorMutant(io, h) == io
\* Line 175: the write-error handler closes the file object.
CloseOnWriteError(io, h) == CloseIfOpen(io, h)

\* Variant of NeedNewFile that reopens the shard for every record.
NeedNewFileMutant(lc) == TRUE
\* Line 137: `if line_count_current_file == 0`.
NeedNewFile(lc) == lc = 0

\* Variant of ChunkFull that is off by one.
ChunkFullMutant(lc, ml) == lc > ml
\* Line 182: `if line_count_current_file >= max_lines`.
ChunkFull(lc, ml) == lc >= ml

\* Line 215: both arms of the conditional expression are file_index.
FinalFileCount(fi, lc, processed) ==
  IF lc = 0 /\ processed > 0 THEN fi ELSE fi

EmptyFile == [lines |-> <<>>, torn |-> FALSE]

\* open(name, 'w'): the file is created, or truncated if it exists.
Truncate(fs, k) == [j \in DOMAIN fs \cup {k} |-> IF j = k THEN EmptyFile ELSE fs[j]]

\* The file system and the file objects once lines 137-149 have run with a
\* successful open (unchanged when no new file is needed).
FilesAtWrite ==
  IF NeedNewFile(line_count_current_file) THEN Truncate(files, file_index) ELSE files

OpenedAtWrite ==
  IF NeedNewFile(line_count_current_file) THEN Append(opened, file_index) ELSE opened

IsOpenAtWrite ==
  IF NeedNewFile(line_count_current_file)
    THEN Append(ClosePrevious(isOpen, outfile), TRUE)
    ELSE isOpen

OutfileAtWrite ==
  IF NeedNewFile(line_count_current_file) THEN Len(opened) + 1 ELSE outfile

\* The shard the file object h writes to.
ShardOf(op, h) == op[h]

\* ------------------------------------------------------------- the pipeline
Abort(how) ==
  /\ pc' = "done"
  /\ exit' = how

\* Lines 65-72: the output directory is created when it is missing; a failure
\* returns before anything is read.
Mkdir ==
  /\ pc = "mkdir"
  /\ \E ok \in BOOLEAN :
       IF ok THEN pc' = "read" /\ exit' = exit ELSE Abort("mkdir_fail")
  /\ UNCHANGED <<parsed, max_lines, metadata_list, i, total_processed_count,
                 total_skipped_count, file_index, line_count_current_file,
                 outfile, opened, isOpen, files, final_file_count, repair_vars>>

\* Lines 77-113 and the handlers of lines 191-198: the input file is opened,
\* read, repaired and parsed.
ReadAndParse ==
  /\ pc = "read"
  /\ \E r \in {"ok", "notfound", "ioerror"} :
       CASE r # "ok" ->
              /\ Abort(r)
              /\ isOpen' = CloseIfOpen(isOpen, outfile)
              /\ UNCHANGED metadata_list
         [] r = "ok" /\ parsed.kind # "list" ->
              /\ Abort(parsed.kind)
              /\ UNCHANGED <<isOpen, metadata_list>>
         [] r = "ok" /\ parsed.kind = "list" /\ parsed.list = <<>> ->
              /\ Abort("empty")
              /\ UNCHANGED <<isOpen, metadata_list>>
         [] OTHER ->
              /\ pc' = "loop"
              /\ metadata_list' = parsed.list
              /\ UNCHANGED <<exit, isOpen>>
  /\ UNCHANGED <<parsed, max_lines, i, total_processed_count,
                 total_skipped_count, file_index, line_count_current_file,
                 outfile, opened, files, final_file_count, repair_vars>>

InLoop == pc = "loop" /\ i <= Len(metadata_list)

record == metadata_list[i]

user_content == create_user_prompt(record.title, record.author, record.abstract)

\* The record passes lines 118-134 and reaches the shard writer.
Valid ==
  /\ record.mapping
  /\ ~NotAll(record._id, record.title, record.abstract)
  /\ user_content.kind = "prompt"

\* Lines 118 and 130 raising AttributeError (the element is not a mapping, or
\* its abstract is truthy and not a string), caught on lines 199-202.
RecordRaises ==
  /\ InLoop
  /\ \/ ~record.mapping
     \/ /\ record.mapping
        /\ ~NotAll(record._id, record.title, record.abstract)
        /\ user_content.kind = "raise"
  /\ Abort("exception")
  /\ isOpen' = CloseIfOpen(isOpen, outfile)
  /\ UNCHANGED <<parsed, max_lines, metadata_list, i, total_processed_count,
                 total_skipped_count, file_index, line_count_current_file,
                 outfile, opened, files, final_file_count, repair_vars>>

\* Lines 124-127 and 131-134: the record is skipped.
SkipRecord ==
  /\ InLoop
  /\ record.mapping
  /\ \/ NotAll(record._id, record.title, record.abstract)
     \/ /\ ~NotAll(record._id, record.title, record.abstract)
        /\ user_content.kind = "none"
  /\ total_skipped_count' = total_skipped_count + 1
  /\ i' = i + 1
  /\ UNCHANGED <<parsed, max_lines, pc, exit, metadata_list,
                 total_processed_count, file_index, line_count_current_file,
                 outfile, opened, isOpen, files, final_file_count, repair_vars>>

\* Lines 137-149 with open() raising IOError: the previous file object has
\* been closed, the function returns.
OpenFails ==
  /\ InLoop
  /\ Valid
  /\ NeedNewFile(line_count_current_file)
  /\ isOpen' = ClosePrevious(isOpen, outfile)
  /\ Abort("open_fail")
  /\ UNCHANGED <<parsed, max_lines, metadata_list, i, total_processed_count,
                 total_skipped_count, file_index, line_count_current_file,
                 outfile, opened, files, final_file_count, repair_vars>>

\* Lines 137-176 with the write raising IOError: whatever part of the line
\* reached the file stays there (torn), the file object is closed, the
\* function returns.
WriteFails ==
  /\ InLoop
  /\ Valid
  /\ \E torn \in BOOLEAN :
       files' = [FilesAtWrite EXCEPT ![ShardOf(OpenedAtWrite, OutfileAtWrite)].torn = torn]
  /\ opened' = OpenedAtWrite
  /\ outfile' = OutfileAtWrite
  /\ isOpen' = CloseOnWriteError(IsOpenAtWrite, OutfileAtWrite)
  /\ Abort("write_fail")
  /\ UNCHANGED <<parsed, max_lines, metadata_list, i, total_processed_count,
                 total_skipped_count, file_index, line_count_current_file,
                 final_file_count, repair_vars>>

\* Lines 137-189 with no failure: a new shard is opened if the line count is
\* zero, the request line is written, the counters advance, and a full shard
\* advances file_index and resets the line count.
WriteRecord ==
  /\ InLoop
  /\ Valid
  /\ files' = [FilesAtWrite EXCEPT ![ShardOf(OpenedAtWrite, OutfileAtWrite)].lines =
                 Append(@, JsonlLine(record._id, user_content))]
  /\ opened' = OpenedAtWrite
  /\ outfile' = OutfileAtWrite
  /\ isOpen' = IsOpenAtWrite
  /\ total_processed_count' = total_processed_count + 1
  /\ IF ChunkFull(line_count_current_file + 1, max_lines)
       THEN /\ file_index' = file_index + 1
            /\ line_count_current_file' = 0
       ELSE /\ file_index' = file_index
            /\ line_count_current_file' = line_count_current_file + 1
  /\ i' = i + 1
  /\ UNCHANGED <<parsed, max_lines, pc, exit, metadata_list,
                 total_skipped_count, final_file_count, repair_vars>>

\* Lines 204-218: the loop is over; the last file object is closed and the
\* summary is printed.
Finish ==
  /\ pc = "loop"
  /\ i > Len(metadata_list)
  /\ isOpen' = CloseIfOpen(isOpen, outfile)
  /\ final_file_count' =
       IF total_processed_count = 0 /\ total_skipped_count = 0
         THEN -1
         ELSE FinalFileCount(file_index, line_count_current_file, total_processed_count)
  /\ Abort("normal")
  /\ UNCHANGED <<parsed, max_lines, metadata_list, i, total_processed_count,
                 total_skipped_count, file_index, line_count_current_file,
                 outfile, opened, files, repair_vars>>

Next ==
  \/ Mkdir
  \/ ReadAndParse
  \/ RecordRaises
  \/ SkipRecord
  \/ OpenFails
  \/ WriteFails
  \/ WriteRecord
  \/ Finish

Spec == Init /\ [][Next]_vars

\* ---------------------------------------------------------- the repair pass
\* Lines 85-87: re.sub(r'\\(?!")', r'\\\\', text): every backslash that is not
\* directly followed by a double quote becomes two backslashes.
RECURSIVE FixSlashFrom(_, _)
FixSlashFrom(text, p) ==
  IF p > Len(text) THEN <<>>
  ELSE IF text[p] = "\\" /\ ~(p < Len(text) /\ text[p + 1] = "\"")
    THEN <<"\\", "\\">> \o FixSlashFrom(text, p + 1)
    ELSE <<text[p]>> \o FixSlashFrom(text, p + 1)

FixSlash(text) == FixSlashFrom(text, 1)

\* Variant of StripControl that strips NUL only.
StripControlMutant(text) == SelectSeq(text, LAMBDA c : c # "NUL")
\* Line 91: re.sub(r'[\x00-\x1F\x7F-\x9F]', '', text).
StripControl(text) == SelectSeq(text, LAMBDA c : ~IsControl(c))

\* Where a match of ,\s*] that starts at p ends, 0 if none starts there.
RECURSIVE SkipSpaces(_, _)
SkipSpaces(text, q) ==
  IF q <= Len(text) /\ IsSpace(text[q]) THEN SkipSpaces(text, q + 1) ELSE q

MatchEnd(text, p) ==
  IF text[p] # "," THEN 0
  ELSE LET q == SkipSpaces(text, p + 1)
       IN IF q <= Len(text) /\ text[q] = "]" THEN q ELSE 0

\* Line 94: re.sub(r',\s*]', ']', text): one left-to-right pass over the
\* non-overlapping matches.
RECURSIVE RemoveCommasFrom(_, _)
RemoveCommasFrom(text, p) ==
  IF p > Len(text) THEN <<>>
  ELSE IF MatchEnd(text, p) # 0
    THEN <<"]">> \o RemoveCommasFrom(text, MatchEnd(text, p) + 1)
    ELSE <<text[p]>> \o RemoveCommasFrom(text, p + 1)

RemoveTrailingCommas(text) == RemoveCommasFrom(text, 1)

InitRepair ==
  /\ json_str \in SeqsUpTo(Alphabet, MaxTextLen)
  /\ corrected_json_text = json_str
  /\ stage = "raw"
  /\ repaired = <<>>
  /\ parsed = [kind |-> "badjson", list |-> <<>>]
  /\ max_lines = 1
  /\ pc = "repair"
  /\ InitLocals

\* Line 87.
FixBackslashes ==
  /\ stage = "raw"
  /\ corrected_json_text' = FixSlash(json_str)
  /\ stage' = "slash"
  /\ UNCHANGED <<json_str, repaired, pipeline_vars>>

\* Line 91.
StripControlChars ==
  /\ stage = "slash"
  /\ corrected_json_text' = StripControl(corrected_json_text)
  /\ stage' = "control"
  /\ UNCHANGED <<json_str, repaired, pipeline_vars>>

\* Line 94; the text is now what json.loads is given.
RemoveCommas ==
  /\ stage = "control"
  /\ corrected_json_text' = RemoveTrailingCommas(corrected_json_text)
  /\ repaired' = corrected_json_text'
  /\ stage' = "repaired"
  /\ UNCHANGED <<json_str, pipeline_vars>>

\* Lines 91 and 94 applied once more to the repaired text.
Reapply ==
  /\ stage = "repaired"
  /\ corrected_json_text' = RemoveTrailingCommas(StripControl(corrected_json_text))
  /\ stage' = "again"
  /\ UNCHANGED <<json_str, repaired, pipeline_vars>>

NextRepair ==
  \/ FixBackslashes
  \/ StripControlChars
  \/ RemoveCommas
  \/ Reapply

SpecRepair == InitRepair /\ [][NextRepair]_vars

\* ================================================================== claims
\* ----------------------------------------------------- what the claims use
ShardIds == DOMAIN files

Max(S) == CHOOSE m \in S : \A k \in S : k <= m

RECURSIVE LinesUpTo(_)
LinesUpTo(n) == IF n = 0 THEN <<>> ELSE LinesUpTo(n - 1) \o files[n].lines

\* The request lines of shards 1..n read in shard order.
AllLines == LinesUpTo(Cardinality(ShardIds))

RECURSIVE CountLines(_)
CountLines(S) ==
  IF S = {} THEN 0
  ELSE LET k == CHOOSE x \in S : TRUE
       IN Len(files[k].lines) + CountLines(S \ {k})

Ceil(a, b) == (a + b - 1) \div b

OpenObjects == {h \in DOMAIN isOpen : isOpen[h]}

\* A field value that is absent or falsy, in the words of the specification:
\* a missing key or null, an empty string, the number zero.
Falsy(x) ==
  \/ x.ty = "absent"
  \/ x.ty = "str" /\ Len(x.v) = 0
  \/ x.ty = "num" /\ x.v = 0

Blank(x) == x.ty = "str" /\ \A p \in 1..Len(x.v) : x.v[p] \in {" ", "LF"}

Defective(r) == Falsy(r._id) \/ Falsy(r.title) \/ Falsy(r.abstract) \/ Blank(r.abstract)

InputArray == parsed.list

ValidPositions == {p \in 1..Len(InputArray) : InputArray[p].mapping /\ ~Defective(InputArray[p])}

RECURSIVE ExpectedIdsFrom(_)
ExpectedIdsFrom(p) ==
  IF p > Len(InputArray) THEN <<>>
  ELSE IF p \in ValidPositions
    THEN <<(<<"extract-">> \o Format(InputArray[p]._id))>> \o ExpectedIdsFrom(p + 1)
    ELSE ExpectedIdsFrom(p + 1)

\* "extract-" + _id of every valid record, in input order.
ExpectedIds == ExpectedIdsFrom(1)

EmittedIds == [n \in 1..Len(AllLines) |-> AllLines[n].custom_id]

PairwiseDistinct(seq) == \A a, b \in 1..Len(seq) : a # b => seq[a] # seq[b]

SameValue(x, y) == x.ty = y.ty /\ x.v = y.v

AllMappings == \A p \in 1..Len(InputArray) : InputArray[p].mapping

\* The _id values that are present are pairwise distinct JSON values.
IdsDistinct ==
  \A a, b \in 1..Len(InputArray) :
    (a # b /\ InputArray[a]._id.ty # "absent" /\ InputArray[b]._id.ty # "absent")
      => ~SameValue(InputArray[a]._id, InputArray[b]._id)

\* The _id values that are present are pairwise distinct once rendered as
\* text (always so when they are pairwise distinct strings).
RenderedIdsDistinct ==
  \A a, b \in 1..Len(InputArray) :
    (a # b /\ InputArray[a]._id.ty # "absent" /\ InputArray[b]._id.ty # "absent")
      => Format(InputArray[a]._id) # Format(InputArray[b]._id)

\* C1: when a run completes normally, the request lines written over all
\* shard files number total_processed_count, and total_processed_count +
\* total_skipped_count is the number of elements of the input array.
C1_CountsBalance ==
  exit \in {"normal", "empty"} =>
    /\ CountLines(ShardIds) = total_processed_count
    /\ total_processed_count + total_skipped_count = Len(InputArray)

C1_Witness ==
  /\ exit = "normal"
  /\ total_processed_count >= 2
  /\ total_skipped_count >= 1
  /\ Cardinality(ShardIds) >= 2

\* C2: no shard file ever holds more than max_lines lines, and when the run
\* is over every shard file but the highest-numbered one holds exactly
\* max_lines lines.
C2_ShardCapacity ==
  /\ \A k \in ShardIds :
       Len(files[k].lines) + (IF files[k].torn THEN 1 ELSE 0) <= max_lines
  /\ pc = "done" =>
       \A k \in ShardIds : k # Max(ShardIds) => Len(files[k].lines) = max_lines

C2_Witness ==
  /\ exit = "normal"
  /\ Cardinality(ShardIds) >= 2
  /\ Len(files[1].lines) = max_lines
  /\ Len(files[Max(ShardIds)].lines) < max_lines

\* C3 as stated: for mapping records with pairwise distinct _id values, the
\* lines of shards 1..n in order are one per valid record in input order,
\* with custom_id "extract-" + _id, and the custom_id values are pairwise
\* distinct.
C3_Original ==
  (exit = "normal" /\ AllMappings /\ IdsDistinct) =>
    /\ EmittedIds = ExpectedIds
    /\ PairwiseDistinct(EmittedIds)

\* C3 as amended: the same, for _id values whose text renderings are
\* pairwise distinct.
C3_OrderedUniqueIds ==
  (exit = "normal" /\ AllMappings /\ RenderedIdsDistinct) =>
    /\ EmittedIds = ExpectedIds
    /\ PairwiseDistinct(EmittedIds)

C3_Witness ==
  /\ exit = "normal"
  /\ RenderedIdsDistinct
  /\ Len(EmittedIds) >= 2
  /\ total_skipped_count >= 1
  /\ Cardinality(ShardIds) >= 2

\* C4: a mapping record whose _id, title or abstract is absent or falsy, or
\* whose abstract is blank, is skipped wherever it stands: the skipped counter
\* grows by one, the processed counter, the shard index, the line count, the
\* shard files and the file objects are unchanged, and the loop goes on with
\* the next record.
C4_DefectiveRecordSkipped ==
  [][(InLoop /\ record.mapping /\ Defective(record)) =>
       /\ total_skipped_count' = total_skipped_count + 1
       /\ UNCHANGED <<total_processed_count, file_index, line_count_current_file,
                      files, opened, isOpen, outfile>>
       /\ pc' = "loop"
       /\ exit' = "none"
       /\ i' = i + 1]_vars

C4_Witness ==
  /\ pc = "loop"
  /\ i > 2
  /\ Defective(metadata_list[i - 1])
  /\ ~Falsy(metadata_list[i - 1].abstract)
  /\ total_skipped_count >= 1
  /\ OpenObjects # {}
  /\ line_count_current_file = 0

\* C5 as stated: no shard file is ever empty, the shard files number
\* ceil(processed / max_lines), and an input that is no list, does not parse,
\* is empty or holds only skipped records creates no file.
C5_Original ==
  /\ \A k \in ShardIds : files[k].lines # <<>>
  /\ Cardinality(ShardIds) = Ceil(total_processed_count, max_lines)
  /\ (parsed.kind # "list" \/ total_processed_count = 0) => ShardIds = {}

\* A write failed on the first line of a freshly opened shard.
FirstWriteFailed == exit = "write_fail" /\ line_count_current_file = 0

\* C5 as amended: a shard file is empty only when the write of its first line
\* failed; the shard files number ceil(processed / max_lines), one more after
\* such a failure; and an input that is no list, does not parse, is empty or
\* holds only skipped records creates no file.
C5_LazyShardCreation ==
  /\ \A k \in ShardIds :
       files[k].lines = <<>> => (FirstWriteFailed /\ k = file_index)
  /\ Cardinality(ShardIds) =
       Ceil(total_processed_count, max_lines) + (IF FirstWriteFailed THEN 1 ELSE 0)
  /\ (parsed.kind # "list" \/ InputArray = <<>>) => ShardIds = {}
  /\ (total_processed_count = 0 /\ ~FirstWriteFailed) => ShardIds = {}

C5_Witness ==
  /\ exit = "normal"
  /\ total_processed_count = max_lines
  /\ Cardinality(ShardIds) = 1
  /\ Defective(metadata_list[Len(metadata_list)])

\* C6: on normal completion the shard count of the summary is the number of
\* shard files the run created.
C6_ReportedShardCount ==
  exit = "normal" => final_file_count = Cardinality(ShardIds)

\* C7: a failed open or write aborts the run at that record (every earlier
\* record is counted, no later one is, nothing runs afterwards), and however
\* the run ends no file object is left open.
C7_AbortAndClose ==
  /\ pc = "done" => (OpenObjects = {} /\ ~ENABLED Next)
  /\ exit \in {"open_fail", "write_fail"} =>
       /\ pc = "done"
       /\ i <= Len(metadata_list)
       /\ total_processed_count + total_skipped_count = i - 1

C7_Witness ==
  /\ exit = "write_fail"
  /\ i < Len(metadata_list)
  /\ Len(opened) >= 2
  /\ files[file_index].lines = <<>>

\* The step is the write that fills the current shard.
FillingWrite ==
  /\ total_processed_count' = total_processed_count + 1
  /\ line_count_current_file + 1 = max_lines

\* C9 as stated: right after the write that fills a shard no file object is
\* open, the line count is zero and the shard index has grown by one; the
\* shard index changes at no other step.
C9_Original ==
  /\ [][FillingWrite =>
          /\ OpenObjects' = {}
          /\ line_count_current_file' = 0
          /\ file_index' = file_index + 1]_vars
  /\ [][file_index' # file_index => FillingWrite]_vars

\* A full shard whose file object has not been closed yet.
FullShardOpen ==
  /\ total_processed_count > 0
  /\ line_count_current_file = 0
  /\ outfile # 0
  /\ isOpen[outfile]

\* C9 as amended: right after the write that fills a shard the line count is
\* zero and the shard index has grown by one, and the shard index changes at
\* no other step; the full shard stays open over skipped records and is
\* closed when the next valid record is handled or the run ends.
C9_RotationOnFill ==
  /\ [][FillingWrite =>
          /\ line_count_current_file' = 0
          /\ file_index' = file_index + 1
          /\ isOpen'[outfile']
          /\ opened'[outfile'] = file_index
          /\ Len(files'[file_index].lines) = max_lines]_vars
  /\ [][file_index' # file_index => FillingWrite]_vars
  /\ [][(FullShardOpen /\ total_skipped_count' # total_skipped_count) =>
          isOpen'[outfile]]_vars
  /\ [][(FullShardOpen /\ (pc' = "done" \/ total_processed_count' # total_processed_count)) =>
          ~isOpen'[outfile]]_vars

C9_Witness ==
  /\ pc = "loop"
  /\ FullShardOpen
  /\ file_index = 3
  /\ total_skipped_count >= 1

\* C10: at most one file object is open at any time, every file object but
\* the newest is closed, and the shards are opened on indices 1, 2, 3, ...
\* in turn, none skipped and none opened twice.
C10_OneOpenShard ==
  /\ Cardinality(OpenObjects) <= 1
  /\ \A h \in DOMAIN opened : opened[h] = h
  /\ \A h \in DOMAIN isOpen : h < Len(isOpen) => ~isOpen[h]

C10_Witness ==
  /\ Len(opened) >= 3
  /\ isOpen[Len(opened)]
  /\ pc = "loop"

\* ------------------------------------------------- claims on the repair pass
NoControl(text) == \A p \in 1..Len(text) : text[p] \notin {"LF", "NUL"}

\* A comma separated only by whitespace from a following closing bracket.
RECURSIVE OnlySpacesThenBracket(_, _)
OnlySpacesThenBracket(text, q) ==
  /\ q <= Len(text)
  /\ \/ text[q] = "]"
     \/ text[q] \in {" ", "LF"} /\ OnlySpacesThenBracket(text, q + 1)

HasTrailingComma(text) ==
  \E p \in 1..Len(text) : text[p] = "," /\ OnlySpacesThenBracket(text, p + 1)

\* Two commas separated only by whitespace, the second a trailing comma.
RECURSIVE OnlySpacesThenTrailingComma(_, _)
OnlySpacesThenTrailingComma(text, q) ==
  /\ q <= Len(text)
  /\ \/ text[q] = "," /\ OnlySpacesThenBracket(text, q + 1)
     \/ text[q] \in {" ", "LF"} /\ OnlySpacesThenTrailingComma(text, q + 1)

HasCommaRun(text) ==
  \E p \in 1..Len(text) : text[p] = "," /\ OnlySpacesThenTrailingComma(text, p + 1)

\* The raw text with its control characters taken out.
Visible(text) == SelectSeq(text, LAMBDA c : c \notin {"LF", "NUL"})

\* C8 as stated: control stripping and trailing-comma removal applied to the
\* repaired text give the same text, and the repaired text holds no control
\* character and no trailing comma.
C8_Original ==
  /\ stage \in {"repaired", "again"} =>
       (NoControl(corrected_json_text) /\ ~HasTrailingComma(corrected_json_text))
  /\ stage = "again" => corrected_json_text = repaired

\* C8 as amended: the repaired text holds no control character, and when the
\* text without its control characters has no two commas in a row (whitespace
\* apart) before a closing bracket, the two steps applied again give the same
\* text and the repaired text holds no trailing comma.
C8_RepairIdempotent ==
  /\ stage \in {"repaired", "again"} => NoControl(corrected_json_text)
  /\ (stage \in {"repaired", "again"} /\ ~HasCommaRun(Visible(json_str))) =>
       ~HasTrailingComma(corrected_json_text)
  /\ (stage = "again" /\ ~HasCommaRun(Visible(json_str))) =>
       corrected_json_text = repaired

C8_Witness ==
  /\ stage = "again"
  /\ ~HasCommaRun(Visible(json_str))
  /\ HasTrailingComma(Visible(json_str))
  /\ ~NoControl(json_str)
  /\ corrected_json_text = repaired

====
